---- MODULE Spec2Model ----
(***************************************************************************)
(* handleBookingRequested                                                  *)
(* (packages/features/bookings/lib/handleBookingRequested.ts): the two     *)
(* request emails, the subscriber lookup, the event-type info, the payload *)
(* of each delivery, the fan-out of sendPayload and the wait on            *)
(* Promise.all, as a state machine over sequentially started calls.        *)
(*                                                                         *)
(* JavaScript values are strings: "undefined", "null", "true", "false",    *)
(* "n:<number>", "s:<text>", "o:<object>".  A JavaScript object is a       *)
(* function from its own enumerable keys to values; the object with no     *)
(* keys stands for a null reference where the code tests one with ?. .     *)
(***************************************************************************)
EXTENDS Integers, Sequences, FiniteSets, Bags, TLC

\* Number of handleBookingRequested calls a behaviour starts.
MaxCalls == 2

\* Number of rows of the Webhook table.
MaxSubs == 2

Calls == 1..MaxCalls

SubIds == 1..MaxSubs

VARIABLES
    webhooks,       \* the Webhook table: SubIds -> subscription row
    booking,        \* args.booking
    evt,            \* args.evt, the calendar-event snapshot
    bookingId,      \* args.bookingId
    paid,           \* whether the event type of the booking takes a payment
    status,         \* BookingStatus of the booking in the database
    flow,           \* position of the booking in the booking write path
    hooks,          \* webhooks the booking write path dispatched itself
    started,        \* number of calls started so far
    pc,             \* Calls -> position of the call in the function body
    emails,         \* Calls -> sequence of request emails sent
    subscribers,    \* Calls -> subscribersBookingRequested (sequence of ids)
    eventTypeInfo,  \* Calls -> the eventTypeInfo object built (or NoObject)
    delivery,       \* Calls -> SubIds -> state of the sendPayload promise
    attempts,       \* Calls -> SubIds -> number of sendPayload invocations
    sent,           \* Calls -> SubIds -> arguments of the sendPayload invocation
    console,        \* Calls -> bag of console.error entries
    failure,        \* Calls -> what failed inside the call (history)
    outcome         \* Calls -> "running", "returned" or "threw"

vars == <<webhooks, booking, evt, bookingId, paid, status, flow, hooks,
          started, pc, emails, subscribers, eventTypeInfo, delivery, attempts,
          sent, console, failure, outcome>>

\* The state of the booking write path, the caller of handleBookingRequested.
caller == <<paid, status, flow, hooks>>

\* What handleBookingRequested reads and never writes: the table, its
\* arguments and the caller's state.
inputs == <<webhooks, booking, evt, bookingId, caller>>

-----------------------------------------------------------------------------
(* JavaScript values and objects *)

UNDEFINED == "undefined"

NULL == "null"

\* The object with no own keys; also the stand-in for a null reference.
NoObject == [k \in {} |-> UNDEFINED]

IsNullish(o) == DOMAIN o = {}

\* a || b
Falsy(v) == v \in {UNDEFINED, NULL, "false", "n:0", "s:"}

Or(a, b) == IF Falsy(a) THEN b ELSE a

\* o?.k : undefined when o is null, or when o has no property k
OptGet(o, k) == IF IsNullish(o) \/ k \notin DOMAIN o THEN UNDEFINED ELSE o[k]

\* { ...a, ...b } : the keys of both, b's value on every collision
Spread(a, b) ==
    [k \in DOMAIN a \cup DOMAIN b |-> IF k \in DOMAIN b THEN b[k] ELSE a[k]]

-----------------------------------------------------------------------------
(* WebhookTriggerEvents and the Webhook table *)

BOOKING_CREATED == "BOOKING_CREATED"

BOOKING_REQUESTED == "BOOKING_REQUESTED"

BOOKING_PAYMENT_INITIATED == "BOOKING_PAYMENT_INITIATED"

\* booking.userId and booking.eventTypeId of the booking the calls are about
OrganizerId == "n:101"

EventTypeId == "n:1"

\* The owner/scope, active flag and enabled triggers a Webhook row can have:
\* the organizer's own rows (enabled for the one trigger, for the other,
\* or inactive) and another user's rows (on this event type, or not).
WebhookKinds ==
    { [userId |-> OrganizerId, eventTypeId |-> NULL, active |-> TRUE,
       eventTriggers |-> {BOOKING_REQUESTED}],
      [userId |-> OrganizerId, eventTypeId |-> NULL, active |-> TRUE,
       eventTriggers |-> {BOOKING_CREATED}],
      [userId |-> OrganizerId, eventTypeId |-> NULL, active |-> FALSE,
       eventTriggers |-> {BOOKING_REQUESTED}],
      [userId |-> "n:102", eventTypeId |-> EventTypeId, active |-> TRUE,
       eventTriggers |-> {BOOKING_CREATED, BOOKING_REQUESTED,
                         BOOKING_PAYMENT_INITIATED}],
      [userId |-> "n:102", eventTypeId |-> "n:2", active |-> TRUE,
       eventTriggers |-> {BOOKING_REQUESTED}] }

\* Row i of the table: a kind, with the row's own endpoint and secret.
WebhookRow(i, kind) ==
    [id |-> i,
     userId |-> kind.userId,
     eventTypeId |-> kind.eventTypeId,
     active |-> kind.active,
     eventTriggers |-> kind.eventTriggers,
     subscriberUrl |-> "s:http://hook" \o ToString(i) \o ".example.com",
     secret |-> "s:secret" \o ToString(i)]

WebhookTables ==
    { [i \in SubIds |-> WebhookRow(i, f[i])] : f \in [SubIds -> WebhookKinds] }

-----------------------------------------------------------------------------
(* The arguments of handleBookingRequested *)

\* booking.eventType, when the booking has one
EventTypes ==
    { [id |-> EventTypeId, title |-> "s:Consultation", description |-> NULL,
       requiresConfirmation |-> "false", price |-> "n:0", currency |-> "s:usd",
       length |-> "n:30", teamId |-> NULL],
      [id |-> EventTypeId, title |-> "s:Paid session", description |-> "s:One hour",
       requiresConfirmation |-> "true", price |-> "n:100", currency |-> "s:eur",
       length |-> "n:45", teamId |-> NULL] }

Bookings ==
    { [userId |-> OrganizerId, eventTypeId |-> EventTypeId, eventType |-> et,
       smsReminderNumber |-> NULL] : et \in EventTypes \cup {NoObject} }

\* Calendar-event snapshots: the second and third carry keys that the
\* event-type info and the bookingId field of the payload also carry.
EvtKeySets ==
    { {"type", "title", "attendees"},
      {"type", "title", "attendees", "requiresConfirmation", "price", "length"},
      {"type", "title", "attendees", "eventTitle", "currency", "bookingId"} }

Evts == { [k \in K |-> "s:evt." \o k] : K \in EvtKeySets }

BookingIds == {"n:11"}

-----------------------------------------------------------------------------
(* getWebhooks: the Subscriber Resolver *)

\* The rows in scope of the query: the user's own and the event type's.
InScope(row, options) ==
    \/ row.userId = options.userId
    \/ options.eventTypeId # NULL /\ row.eventTypeId = options.eventTypeId

\* The active rows in scope whose enabled triggers hold options.triggerEvent.
Matches(row, options) ==
    /\ InScope(row, options)
    /\ row.active
    /\ options.triggerEvent \in row.eventTriggers

\* The ids of the matching rows of table, in table order.
getWebhooks(table, options) ==
    SelectSeq([i \in SubIds |-> i], LAMBDA i : Matches(table[i], options))

-----------------------------------------------------------------------------
(* The pure parts of handleBookingRequested *)

\* The lookup and the deliveries made for the other trigger.
TriggerEventCreated == BOOKING_CREATED

\* The trigger handleBookingRequested raises (lines 49, 63, 69).
TriggerEvent == BOOKING_REQUESTED

\* The argument of getWebhooks (lines 46-51).
LookupOptions(b) ==
    [userId |-> b.userId,
     eventTypeId |-> b.eventTypeId,
     triggerEvent |-> TriggerEvent,
     teamId |-> OptGet(b.eventType, "teamId")]

\* An info whose requiresConfirmation keeps false: ?? in the place of ||.
EventTypeInfoNullish(b) ==
    [eventTitle |-> OptGet(b.eventType, "title"),
     eventDescription |-> OptGet(b.eventType, "description"),
     requiresConfirmation |->
         IF OptGet(b.eventType, "requiresConfirmation") \in {UNDEFINED, NULL}
             THEN NULL ELSE OptGet(b.eventType, "requiresConfirmation"),
     price |-> OptGet(b.eventType, "price"),
     currency |-> OptGet(b.eventType, "currency"),
     length |-> OptGet(b.eventType, "length")]

\* const eventTypeInfo = { ... } (lines 53-60)
EventTypeInfo(b) ==
    [eventTitle |-> OptGet(b.eventType, "title"),
     eventDescription |-> OptGet(b.eventType, "description"),
     requiresConfirmation |-> Or(OptGet(b.eventType, "requiresConfirmation"), NULL),
     price |-> OptGet(b.eventType, "price"),
     currency |-> OptGet(b.eventType, "currency"),
     length |-> OptGet(b.eventType, "length")]

\* The spread with the snapshot last: { bookingId, ...eventTypeInfo, ...evt }
PayloadEvtLast(e, info, id) == Spread(Spread([bookingId |-> id], info), e)

\* A payload whose metadata is the video call URL whatever evt carries.
PayloadWithVideoCallUrl(e, info, id) ==
    Spread(Spread(Spread(e, info), [bookingId |-> id]),
           [metadata |-> "o:{videoCallUrl}"])

\* { ...evt, ...eventTypeInfo, bookingId } (lines 64-66)
Payload(e, info, id) == Spread(Spread(e, info), [bookingId |-> id])

\* An invocation that signs with the secret of the first row of the table.
SendPayloadArgsFirstSecret(table, s, e, info, id) ==
    [secretKey |-> table[1].secret,
     triggerEvent |-> TriggerEvent,
     webhook |-> table[s],
     data |-> Payload(e, info, id)]

\* The arguments of one sendPayload invocation (line 63); createdAt, the
\* time of the invocation, is left out.
SendPayloadArgs(table, s, e, info, id) ==
    [secretKey |-> table[s].secret,
     triggerEvent |-> TriggerEvent,
     webhook |-> table[s],
     data |-> Payload(e, info, id)]

\* A log entry that does not name the endpoint.
WebhookErrorUnnamed(row) ==
    [kind |-> "webhook", event |-> TriggerEvent, url |-> ""]

\* console.error of the .catch of one delivery (lines 68-71)
WebhookError(row) ==
    [kind |-> "webhook", event |-> TriggerEvent, url |-> row.subscriberUrl]

\* console.error(error) of the outer catch (line 77)
CaughtError(what) == [kind |-> "caught", event |-> what, url |-> ""]

-----------------------------------------------------------------------------
(* The state machine *)

\* The state of the calls before any has started.
NoCalls ==
    /\ started = 0
    /\ pc = [c \in Calls |-> "idle"]
    /\ emails = [c \in Calls |-> <<>>]
    /\ subscribers = [c \in Calls |-> <<>>]
    /\ eventTypeInfo = [c \in Calls |-> NoObject]
    /\ delivery = [c \in Calls |-> [s \in SubIds |-> "none"]]
    /\ attempts = [c \in Calls |-> [s \in SubIds |-> 0]]
    /\ sent = [c \in Calls |-> NoObject]
    /\ console = [c \in Calls |-> EmptyBag]
    /\ failure = [c \in Calls |-> "none"]
    /\ outcome = [c \in Calls |-> "idle"]

\* The booking the calls are about is a request waiting for confirmation:
\* an unpaid booking in status PENDING.
BookingRequested ==
    /\ paid = FALSE
    /\ status = "PENDING"
    /\ flow = "requesting"
    /\ hooks = {}

\* The calls of a behaviour read one table and are about one booking, of an
\* event type that requires confirmation.
Init ==
    /\ webhooks \in WebhookTables
    /\ booking \in {b \in Bookings : OptGet(b.eventType, "requiresConfirmation") = "true"}
    /\ evt \in {e \in Evts : "bookingId" \in DOMAIN e}
    /\ bookingId \in BookingIds
    /\ BookingRequested
    /\ NoCalls

\* Every booking with every calendar-event snapshot.
InitOneCall ==
    /\ webhooks \in WebhookTables
    /\ booking \in Bookings
    /\ evt \in Evts
    /\ bookingId \in BookingIds
    /\ BookingRequested
    /\ NoCalls

\* An exception leaves the function: the promise of the call rejects.
Throw(c, what) ==
    /\ outcome' = [outcome EXCEPT ![c] = "threw"]
    /\ pc' = [pc EXCEPT ![c] = "done"]
    /\ failure' = [failure EXCEPT ![c] = what]
    /\ UNCHANGED console

\* The outer catch with a rethrow in it.
SilentlyFailRethrows(c, what) == Throw(c, what)

\* catch (error) { console.error(error); } (lines 75-78): the exception is
\* logged and the function returns normally.
SilentlyFail(c, what) ==
    /\ console' = [console EXCEPT ![c] = @ (+) SetToBag({CaughtError(what)})]
    /\ outcome' = [outcome EXCEPT ![c] = "returned"]
    /\ pc' = [pc EXCEPT ![c] = "done"]
    /\ failure' = [failure EXCEPT ![c] = what]

\* handleBookingRequested is entered (line 40) and suspends on
\* sendOrganizerRequestEmail (line 42).  Calls start one after the other:
\* the next one when the previous one has returned or thrown.
Enter(c) ==
    /\ c = started + 1
    /\ c > 1 => pc[c - 1] = "done"
    /\ started' = c
    /\ pc' = [pc EXCEPT ![c] = "organizerEmail"]
    /\ outcome' = [outcome EXCEPT ![c] = "running"]
    /\ UNCHANGED <<emails, subscribers, eventTypeInfo, delivery, attempts,
                   sent, console, failure>>

\* A caller invokes handleBookingRequested for the booking.
Start(c) ==
    /\ Enter(c)
    /\ UNCHANGED inputs

\* await sendOrganizerRequestEmail({ ...evt }) resolves (line 42); the
\* function suspends on sendAttendeeRequestEmail (line 43).
OrganizerEmailSent(c) ==
    /\ pc[c] = "organizerEmail"
    /\ emails' = [emails EXCEPT ![c] = Append(@, "organizer")]
    /\ pc' = [pc EXCEPT ![c] = "attendeeEmail"]
    /\ UNCHANGED <<inputs, started, subscribers, eventTypeInfo, delivery,
                   attempts, sent, console, failure, outcome>>

\* sendOrganizerRequestEmail rejects: line 42 is outside the try.
OrganizerEmailFails(c) ==
    /\ pc[c] = "organizerEmail"
    /\ Throw(c, "organizerEmail")
    /\ UNCHANGED <<inputs, started, emails, subscribers, eventTypeInfo,
                   delivery, attempts, sent>>

\* await sendAttendeeRequestEmail({ ...evt }, evt.attendees[0]) resolves
\* (line 43); the function enters the try and suspends on getWebhooks.
AttendeeEmailSent(c) ==
    /\ pc[c] = "attendeeEmail"
    /\ emails' = [emails EXCEPT ![c] = Append(@, "attendee")]
    /\ pc' = [pc EXCEPT ![c] = "getWebhooks"]
    /\ UNCHANGED <<inputs, started, subscribers, eventTypeInfo, delivery,
                   attempts, sent, console, failure, outcome>>

\* The attendee email awaited inside the try: its rejection is swallowed.
AttendeeEmailFailsCaught(c) ==
    /\ pc[c] = "attendeeEmail"
    /\ SilentlyFail(c, "attendeeEmail")
    /\ UNCHANGED <<inputs, started, emails, subscribers, eventTypeInfo,
                   delivery, attempts, sent>>

\* sendAttendeeRequestEmail rejects: line 43 is outside the try.
AttendeeEmailFails(c) ==
    /\ pc[c] = "attendeeEmail"
    /\ Throw(c, "attendeeEmail")
    /\ UNCHANGED <<inputs, started, emails, subscribers, eventTypeInfo,
                   delivery, attempts, sent>>

\* The lookup with the await outside the try.
LookupRejectsUncaught(c) ==
    /\ pc[c] = "getWebhooks"
    /\ Throw(c, "getWebhooks")
    /\ UNCHANGED <<inputs, started, emails, subscribers, eventTypeInfo,
                   delivery, attempts, sent>>

\* await getWebhooks(...) resolves (lines 46-51).
LookupResolves(c) ==
    /\ pc[c] = "getWebhooks"
    /\ subscribers' =
          [subscribers EXCEPT ![c] = getWebhooks(webhooks, LookupOptions(booking))]
    /\ pc' = [pc EXCEPT ![c] = "eventTypeInfo"]
    /\ UNCHANGED <<inputs, started, emails, eventTypeInfo, delivery, attempts,
                   sent, console, failure, outcome>>

\* await getWebhooks(...) rejects inside the try (lines 45-51, 75-78).
LookupRejects(c) ==
    /\ pc[c] = "getWebhooks"
    /\ SilentlyFail(c, "getWebhooks")
    /\ UNCHANGED <<inputs, started, emails, subscribers, eventTypeInfo,
                   delivery, attempts, sent>>

\* The eventTypeInfo literal is evaluated (lines 53-60).
BuildEventTypeInfo(c) ==
    /\ pc[c] = "eventTypeInfo"
    /\ eventTypeInfo' = [eventTypeInfo EXCEPT ![c] = EventTypeInfo(booking)]
    /\ pc' = [pc EXCEPT ![c] = "map"]
    /\ UNCHANGED <<inputs, started, emails, subscribers, delivery, attempts,
                   sent, console, failure, outcome>>

\* A property read of the literal throws (an accessor of a malformed
\* booking): the exception is raised inside the try.
BuildEventTypeInfoThrows(c) ==
    /\ pc[c] = "eventTypeInfo"
    /\ SilentlyFail(c, "eventTypeInfo")
    /\ UNCHANGED <<inputs, started, emails, subscribers, eventTypeInfo,
                   delivery, attempts, sent>>

\* The subscribers the map callback has run for after k of them.
Reached(c, k) == { subscribers[c][i] : i \in 1..k }

\* The callback of subscribers.map has run for the first k subscribers:
\* one sendPayload invocation each (lines 62-66).
Issue(c, k) ==
    /\ delivery' =
          [delivery EXCEPT ![c] =
              [s \in SubIds |-> IF s \in Reached(c, k) THEN "inflight" ELSE @[s]]]
    /\ attempts' =
          [attempts EXCEPT ![c] =
              [s \in SubIds |->
                  @[s] + Cardinality({i \in 1..k : subscribers[c][i] = s})]]
    /\ sent' =
          [sent EXCEPT ![c] =
              [s \in Reached(c, k) |->
                  SendPayloadArgs(webhooks, s, evt, eventTypeInfo[c], bookingId)]]

\* A loop that awaits each delivery before it issues the next one: only the
\* first delivery is issued when the function first suspends.
MapSendPayloadOneByOne(c) ==
    /\ pc[c] = "map"
    /\ Issue(c, IF Len(subscribers[c]) = 0 THEN 0 ELSE 1)
    /\ pc' = [pc EXCEPT ![c] = "await"]
    /\ UNCHANGED <<inputs, started, emails, subscribers, eventTypeInfo,
                   console, failure, outcome>>

\* A map that skips the subscribers an earlier call has delivered to.
MapSendPayloadDeduplicated(c) ==
    /\ pc[c] = "map"
    /\ LET fresh == { s \in Reached(c, Len(subscribers[c])) :
                        \A d \in 1..(c - 1) : attempts[d][s] = 0 }
       IN  /\ delivery' =
                 [delivery EXCEPT ![c] =
                     [s \in SubIds |-> IF s \in fresh THEN "inflight" ELSE @[s]]]
           /\ attempts' =
                 [attempts EXCEPT ![c] =
                     [s \in SubIds |-> IF s \in fresh THEN @[s] + 1 ELSE @[s]]]
           /\ sent' =
                 [sent EXCEPT ![c] =
                     [s \in fresh |->
                         SendPayloadArgs(webhooks, s, evt, eventTypeInfo[c], bookingId)]]
    /\ pc' = [pc EXCEPT ![c] = "await"]
    /\ UNCHANGED <<inputs, started, emails, subscribers, eventTypeInfo,
                   console, failure, outcome>>

\* subscribers.map(...) runs to its end (lines 62-73): every delivery is
\* issued, and the function suspends on Promise.all (line 74).
MapSendPayload(c) ==
    /\ pc[c] = "map"
    /\ Issue(c, Len(subscribers[c]))
    /\ pc' = [pc EXCEPT ![c] = "await"]
    /\ UNCHANGED <<inputs, started, emails, subscribers, eventTypeInfo,
                   console, failure, outcome>>

\* The payload literal of subscriber k + 1 throws (an accessor of a
\* malformed evt) after k deliveries were issued: the exception leaves
\* map and reaches the outer catch (lines 62-66, 75-78).
MapSendPayloadThrows(c) ==
    /\ pc[c] = "map"
    /\ \E k \in 0..(Len(subscribers[c]) - 1) : Issue(c, k)
    /\ SilentlyFail(c, "payload")
    /\ UNCHANGED <<inputs, started, emails, subscribers, eventTypeInfo>>

\* The sendPayload promise of subscriber s fulfils.
DeliveryFulfils(c, s) ==
    /\ delivery[c][s] = "inflight"
    /\ delivery' = [delivery EXCEPT ![c][s] = "fulfilled"]
    /\ UNCHANGED <<inputs, started, pc, emails, subscribers, eventTypeInfo,
                   attempts, sent, console, failure, outcome>>

\* A rejection that takes the sibling deliveries down with it.
DeliveryRejectsCancelsSiblings(c, s) ==
    /\ delivery[c][s] = "inflight"
    /\ delivery' =
          [delivery EXCEPT ![c] =
              [t \in SubIds |->
                  IF t = s THEN "caught"
                  ELSE IF @[t] = "inflight" THEN "cancelled" ELSE @[t]]]
    /\ console' =
          [console EXCEPT ![c] = @ (+) SetToBag({WebhookError(webhooks[s])})]
    /\ UNCHANGED <<inputs, started, pc, emails, subscribers, eventTypeInfo,
                   attempts, sent, failure, outcome>>

\* A rejection whose handler invokes sendPayload again.
DeliveryRejectsRetries(c, s) ==
    /\ delivery[c][s] = "inflight"
    /\ attempts[c][s] = 1
    /\ attempts' = [attempts EXCEPT ![c][s] = @ + 1]
    /\ console' =
          [console EXCEPT ![c] = @ (+) SetToBag({WebhookError(webhooks[s])})]
    /\ UNCHANGED <<inputs, started, pc, emails, subscribers, eventTypeInfo,
                   delivery, sent, failure, outcome>>

\* A rejection with no handler on it, awaited outside the try.
DeliveryRejectsUncaught(c, s) ==
    /\ delivery[c][s] = "inflight"
    /\ delivery' = [delivery EXCEPT ![c][s] = "rejected"]
    /\ IF pc[c] = "await"
          THEN Throw(c, "sendPayload")
          ELSE UNCHANGED <<pc, console, failure, outcome>>
    /\ UNCHANGED <<inputs, started, emails, subscribers, eventTypeInfo,
                   attempts, sent>>

\* The sendPayload promise of subscriber s rejects and its .catch logs the
\* error (lines 67-72): the promise map returned for s fulfils.
DeliveryRejects(c, s) ==
    /\ delivery[c][s] = "inflight"
    /\ delivery' = [delivery EXCEPT ![c][s] = "caught"]
    /\ console' =
          [console EXCEPT ![c] = @ (+) SetToBag({WebhookError(webhooks[s])})]
    /\ UNCHANGED <<inputs, started, pc, emails, subscribers, eventTypeInfo,
                   attempts, sent, failure, outcome>>

Settled(c) ==
    \A i \in 1..Len(subscribers[c]) :
        delivery[c][subscribers[c][i]] \in {"fulfilled", "caught"}

\* An await that resumes only when every delivery has fulfilled.
AwaitAllFulfilled(c) ==
    /\ pc[c] = "await"
    /\ \A i \in 1..Len(subscribers[c]) :
           delivery[c][subscribers[c][i]] = "fulfilled"
    /\ pc' = [pc EXCEPT ![c] = "done"]
    /\ outcome' = [outcome EXCEPT ![c] = "returned"]
    /\ UNCHANGED <<inputs, started, emails, subscribers, eventTypeInfo,
                   delivery, attempts, sent, console, failure>>

\* A function that marks the booking accepted when it returns.
AwaitAllAccepts(c) ==
    /\ pc[c] = "await"
    /\ Settled(c)
    /\ pc' = [pc EXCEPT ![c] = "done"]
    /\ outcome' = [outcome EXCEPT ![c] = "returned"]
    /\ status' = "ACCEPTED"
    /\ UNCHANGED <<webhooks, booking, evt, bookingId, paid, flow, hooks,
                   started, emails, subscribers, eventTypeInfo, delivery,
                   attempts, sent, console, failure>>

\* await Promise.all(promises) resolves (line 74) and the function returns.
AwaitAll(c) ==
    /\ pc[c] = "await"
    /\ Settled(c)
    /\ pc' = [pc EXCEPT ![c] = "done"]
    /\ outcome' = [outcome EXCEPT ![c] = "returned"]
    /\ UNCHANGED <<inputs, started, emails, subscribers, eventTypeInfo,
                   delivery, attempts, sent, console, failure>>

\* The steps of a call once it has started.
Run(c) ==
    \/ OrganizerEmailSent(c)
    \/ OrganizerEmailFails(c)
    \/ AttendeeEmailSent(c)
    \/ AttendeeEmailFails(c)
    \/ LookupResolves(c)
    \/ LookupRejects(c)
    \/ BuildEventTypeInfo(c)
    \/ BuildEventTypeInfoThrows(c)
    \/ MapSendPayload(c)
    \/ MapSendPayloadThrows(c)
    \/ AwaitAll(c)
    \/ \E s \in SubIds : DeliveryFulfils(c, s) \/ DeliveryRejects(c, s)

Step(c) == Start(c) \/ Run(c)

Next == \E c \in Calls : Step(c)

\* Calls one after the other, about one booking.
Spec == Init /\ [][Next]_vars

\* One call, over every argument.
SpecOneCall == InitOneCall /\ [][Step(1)]_vars

-----------------------------------------------------------------------------
(* The booking write path: handleNewBooking and handlePaymentSuccess, as   *)
(* the scenarios of handleNewBooking.test.ts fix them.                     *)

\* metadata of a payload that carries the video call URL, and of one that
\* does not
VideoCallMetadata == "o:{videoCallUrl}"

EmptyMetadata == "o:{}"

\* The event type of the booking requires confirmation.
RequiresConfirmation ==
    OptGet(booking.eventType, "requiresConfirmation") = "true"

\* The webhooks the write path dispatches itself for trigger: one to every
\* row the lookup for that trigger returns.
Dispatch(trigger, metadata) ==
    LET found == getWebhooks(webhooks,
                             [LookupOptions(booking) EXCEPT !.triggerEvent = trigger])
    IN  { [triggerEvent |-> trigger, webhook |-> found[i], metadata |-> metadata] :
            i \in 1..Len(found) }

\* handleBookingRequested is called with the snapshot of the booking, whose
\* metadata the caller has set.
CallHandleBookingRequested(c, metadata) ==
    /\ Enter(c)
    /\ evt' = Spread(evt, [metadata |-> metadata])
    /\ UNCHANGED <<webhooks, booking, bookingId, paid, hooks>>

\* An accepted booking whose BOOKING_CREATED webhook is not dispatched.
NewBookingAcceptedSilently ==
    /\ flow = "new"
    /\ ~RequiresConfirmation /\ ~paid
    /\ status' = "ACCEPTED"
    /\ hooks' = hooks
    /\ flow' = "created"
    /\ UNCHANGED <<webhooks, booking, evt, bookingId, paid, started, pc, emails,
                   subscribers, eventTypeInfo, delivery, attempts, sent,
                   console, failure, outcome>>

\* handleNewBooking for an event type that requires neither confirmation
\* nor payment: the video meeting is created, the booking is ACCEPTED and
\* BOOKING_CREATED is dispatched with the video call URL.
NewBookingAccepted ==
    /\ flow = "new"
    /\ ~RequiresConfirmation /\ ~paid
    /\ status' = "ACCEPTED"
    /\ hooks' = hooks \cup Dispatch(BOOKING_CREATED, VideoCallMetadata)
    /\ flow' = "created"
    /\ UNCHANGED <<webhooks, booking, evt, bookingId, paid, started, pc, emails,
                   subscribers, eventTypeInfo, delivery, attempts, sent,
                   console, failure, outcome>>

\* The creation of the video meeting fails with MockError "Error creating
\* Video meeting" while handleNewBooking creates the booking.
VideoMeetingFails ==
    /\ flow = "new"
    /\ ~RequiresConfirmation /\ ~paid
    /\ flow' = "videoFailed"
    /\ UNCHANGED <<webhooks, booking, evt, bookingId, paid, status, hooks,
                   started, pc, emails, subscribers, eventTypeInfo, delivery,
                   attempts, sent, console, failure, outcome>>

\* A handleNewBooking that swallows the error and returns the booking.
NewBookingSwallowsVideoError ==
    /\ flow = "videoFailed"
    /\ status' = "ACCEPTED"
    /\ hooks' = hooks \cup Dispatch(BOOKING_CREATED, EmptyMetadata)
    /\ flow' = "created"
    /\ UNCHANGED <<webhooks, booking, evt, bookingId, paid, started, pc, emails,
                   subscribers, eventTypeInfo, delivery, attempts, sent,
                   console, failure, outcome>>

\* handleNewBooking throws the error of the video meeting: no booking is
\* returned and no webhook is dispatched.
NewBookingThrows ==
    /\ flow = "videoFailed"
    /\ flow' = "threwVideoError"
    /\ UNCHANGED <<webhooks, booking, evt, bookingId, paid, status, hooks,
                   started, pc, emails, subscribers, eventTypeInfo, delivery,
                   attempts, sent, console, failure, outcome>>

\* handleNewBooking for an unpaid event type that requires confirmation:
\* the booking is PENDING and handleBookingRequested is called, with no
\* video call URL in the metadata of the snapshot.
NewBookingRequested ==
    /\ flow = "new"
    /\ RequiresConfirmation /\ ~paid
    /\ status' = "PENDING"
    /\ flow' = "requesting"
    /\ \E c \in Calls : CallHandleBookingRequested(c, EmptyMetadata)

\* handleBookingRequested has returned to handleNewBooking, or thrown.
NewBookingRequestEnds ==
    /\ flow = "requesting"
    /\ started > 0 /\ pc[started] = "done"
    /\ flow' = (IF outcome[started] = "threw" THEN "failed" ELSE "created")
    /\ UNCHANGED <<webhooks, booking, evt, bookingId, paid, status, hooks,
                   started, pc, emails, subscribers, eventTypeInfo, delivery,
                   attempts, sent, console, failure, outcome>>

\* A paid booking that is accepted before it is paid.
NewBookingPaymentAcceptedEarly ==
    /\ flow = "new"
    /\ paid
    /\ status' = "ACCEPTED"
    /\ hooks' = hooks \cup Dispatch(BOOKING_CREATED, EmptyMetadata)
    /\ flow' = "awaitingPayment"
    /\ UNCHANGED <<webhooks, booking, evt, bookingId, paid, started, pc, emails,
                   subscribers, eventTypeInfo, delivery, attempts, sent,
                   console, failure, outcome>>

\* handleNewBooking for a paid event type: the booking is PENDING and
\* BOOKING_PAYMENT_INITIATED is dispatched, with no video call URL.
NewBookingPayment ==
    /\ flow = "new"
    /\ paid
    /\ status' = "PENDING"
    /\ hooks' = hooks \cup Dispatch(BOOKING_PAYMENT_INITIATED, EmptyMetadata)
    /\ flow' = "awaitingPayment"
    /\ UNCHANGED <<webhooks, booking, evt, bookingId, paid, started, pc, emails,
                   subscribers, eventTypeInfo, delivery, attempts, sent,
                   console, failure, outcome>>

\* A payment success that leaves the booking PENDING.
PaymentSuccessAcceptedNot ==
    /\ flow = "awaitingPayment"
    /\ ~RequiresConfirmation
    /\ flow' = "paid"
    /\ UNCHANGED <<webhooks, booking, evt, bookingId, paid, status, hooks,
                   started, pc, emails, subscribers, eventTypeInfo, delivery,
                   attempts, sent, console, failure, outcome>>

\* handlePaymentSuccess for an event type that does not require
\* confirmation: the booking is ACCEPTED and BOOKING_CREATED is dispatched,
\* with metadata null.
PaymentSuccessAccepted ==
    /\ flow = "awaitingPayment"
    /\ ~RequiresConfirmation
    /\ status' = "ACCEPTED"
    /\ hooks' = hooks \cup Dispatch(BOOKING_CREATED, NULL)
    /\ flow' = "paid"
    /\ UNCHANGED <<webhooks, booking, evt, bookingId, paid, started, pc, emails,
                   subscribers, eventTypeInfo, delivery, attempts, sent,
                   console, failure, outcome>>

\* handlePaymentSuccess for an event type that requires confirmation: the
\* booking stays PENDING and handleBookingRequested is called, with
\* metadata null in the snapshot.
PaymentSuccessRequested ==
    /\ flow = "awaitingPayment"
    /\ RequiresConfirmation
    /\ status' = status
    /\ flow' = "paidRequesting"
    /\ \E c \in Calls : CallHandleBookingRequested(c, NULL)

\* handleBookingRequested has returned to handlePaymentSuccess, or thrown.
PaymentSuccessRequestEnds ==
    /\ flow = "paidRequesting"
    /\ started > 0 /\ pc[started] = "done"
    /\ flow' = "paid"
    /\ UNCHANGED <<webhooks, booking, evt, bookingId, paid, status, hooks,
                   started, pc, emails, subscribers, eventTypeInfo, delivery,
                   attempts, sent, console, failure, outcome>>

\* A booking request arrives for an event type that is paid or not and
\* requires confirmation or not.
InitBooking ==
    /\ webhooks \in WebhookTables
    /\ booking \in {b \in Bookings : ~IsNullish(b.eventType)}
    /\ evt \in Evts
    /\ bookingId \in BookingIds
    /\ paid \in BOOLEAN
    /\ status = "NONE"
    /\ flow = "new"
    /\ hooks = {}
    /\ NoCalls

NextBooking ==
    \/ NewBookingAccepted
    \/ VideoMeetingFails
    \/ NewBookingThrows
    \/ NewBookingRequested
    \/ NewBookingRequestEnds
    \/ NewBookingPayment
    \/ PaymentSuccessAccepted
    \/ PaymentSuccessRequested
    \/ PaymentSuccessRequestEnds
    \/ \E c \in Calls : Run(c)

\* One call under the scheduling of the event loop: a continuation that
\* can run does run, and the emails, the lookup and every issued delivery
\* settle.
SpecLive == Init /\ [][Step(1)]_vars /\ WF_vars(Run(1))

\* One booking through the write path.
SpecBooking == InitBooking /\ [][NextBooking]_vars

-----------------------------------------------------------------------------
(* Properties *)

\* The subscribers of call c: the rows the lookup returned.
Resolved(c) == { subscribers[c][i] : i \in 1..Len(subscribers[c]) }

\* The rows the lookup of this booking returns when it succeeds.
Matching == getWebhooks(webhooks, LookupOptions(booking))

EmailFailed(c) == failure[c] \in {"organizerEmail", "attendeeEmail"}

BuildFailed(c) == failure[c] \in {"eventTypeInfo", "payload"}

DeliveryFailed(c, s) == delivery[c][s] \in {"caught", "rejected"}

\* C1: when getWebhooks fails in a call, the call invokes sendPayload for
\* no subscriber and returns normally instead of throwing.
C1_LookupFailureIsSilent ==
    \A c \in Calls :
        failure[c] = "getWebhooks" =>
            /\ outcome[c] = "returned"
            /\ DOMAIN sent[c] = {}
            /\ \A s \in SubIds : attempts[c][s] = 0 /\ delivery[c][s] = "none"

\* A call whose lookup failed has ended, over a table with matching rows.
C1_Witness ==
    \E c \in Calls :
        /\ failure[c] = "getWebhooks"
        /\ pc[c] = "done"
        /\ Len(Matching) > 0

\* The rejection of the delivery to s in call c, as a step.
Rejecting(c, s) == delivery[c][s] = "inflight" /\ DeliveryFailed(c, s)'

\* C2: fault isolation.  In a call whose map ran to its end, beside a failed
\* delivery every other resolved subscriber has its delivery attempted, and
\* that delivery is fulfilled already or still able to fulfil; the step in
\* which a delivery fails changes the delivery of no sibling.
C2_FaultIsolation ==
    /\ [](\A c \in Calls : \A s \in Resolved(c) : \A t \in Resolved(c) \ {s} :
            (DeliveryFailed(c, s) /\ ~BuildFailed(c)) =>
                /\ attempts[c][t] = 1
                /\ \/ delivery[c][t] \in {"fulfilled", "caught"}
                   \/ delivery[c][t] = "inflight" /\ ENABLED DeliveryFulfils(c, t))
    /\ [][\A c \in Calls : \A s \in SubIds : \A t \in SubIds \ {s} :
            Rejecting(c, s) =>
                /\ delivery'[c][t] = delivery[c][t]
                /\ attempts'[c][t] = attempts[c][t]]_vars

\* The delivery to one subscriber has failed and the delivery to another,
\* issued by the same call, has fulfilled after it.
C2_Witness ==
    \E c \in Calls : \E s \in Resolved(c) : \E t \in Resolved(c) \ {s} :
        /\ delivery[c][s] = "caught"
        /\ delivery[c][t] = "fulfilled"
        /\ outcome[c] = "returned"

\* C3: whichever deliveries of a call fail, the call does not throw: no
\* delivery failure is the exception of a call, a call in which deliveries
\* failed returns normally when it ends, and once every delivery has
\* settled the wait on Promise.all is over.
C3_DeliveryFailureNeverPropagates ==
    \A c \in Calls :
        /\ failure[c] # "sendPayload"
        /\ (\E s \in SubIds : DeliveryFailed(c, s)) => outcome[c] # "threw"
        /\ (pc[c] = "await" /\ Settled(c)) => ENABLED AwaitAll(c)

\* A call with at least two subscribers has returned normally after the
\* delivery to every one of them failed.
C3_Witness ==
    \E c \in Calls :
        /\ Cardinality(Resolved(c)) >= 2
        /\ \A s \in Resolved(c) : delivery[c][s] = "caught"
        /\ pc[c] = "done"
        /\ outcome[c] = "returned"

\* The lookup of call c has succeeded.
LookupSucceeded(c) ==
    pc[c] \in {"eventTypeInfo", "map", "await", "done"}
        /\ ~EmailFailed(c) /\ failure[c] # "getWebhooks"

C6_Original ==
    \A c \in Calls :
        outcome[c] = "returned" => \A s \in SubIds : delivery[c][s] # "inflight"

\* C7: when the function suspends on Promise.all, the delivery to every
\* resolved subscriber has been issued; and beside a delivery that is still
\* in flight, every other delivery of the call is settled or able to
\* settle.
C7_IssuedBeforeAwaited ==
    \A c \in Calls :
        pc[c] = "await" =>
            \A s \in Resolved(c) :
                /\ delivery[c][s] # "none"
                /\ delivery[c][s] = "inflight" =>
                       \A t \in Resolved(c) \ {s} :
                           \/ delivery[c][t] \in {"fulfilled", "caught"}
                           \/ /\ delivery[c][t] = "inflight"
                              /\ ENABLED DeliveryFulfils(c, t)
                              /\ ENABLED DeliveryRejects(c, t)

\* The function waits on Promise.all while the delivery to the first
\* subscriber is in flight and the delivery to a later one has fulfilled.
C7_Witness ==
    \E c \in Calls :
        /\ pc[c] = "await"
        /\ Len(subscribers[c]) >= 2
        /\ delivery[c][subscribers[c][1]] = "inflight"
        /\ delivery[c][subscribers[c][2]] = "fulfilled"

\* The keys of the event-type info.
EventTypeInfoKeys ==
    {"eventTitle", "eventDescription", "requiresConfirmation", "price",
     "currency", "length"}

\* C8: the payload of every delivery has the keys of the calendar-event
\* snapshot, of the event-type info and bookingId; under bookingId it
\* carries the bookingId of the call, under every other key of the
\* event-type info the info's value, and the snapshot's value elsewhere.
C8_PayloadPrecedence ==
    \A c \in Calls : \A s \in DOMAIN sent[c] :
        LET data == sent[c][s].data
            info == EventTypeInfo(booking)
        IN  /\ DOMAIN data = DOMAIN evt \cup EventTypeInfoKeys \cup {"bookingId"}
            /\ data["bookingId"] = bookingId
            /\ \A k \in EventTypeInfoKeys : data[k] = info[k]
            /\ \A k \in DOMAIN evt \ (EventTypeInfoKeys \cup {"bookingId"}) :
                   data[k] = evt[k]

\* A delivery was issued for a snapshot that has a bookingId and a currency
\* of its own, different from the call's and the event type's.
C8_Witness ==
    \E c \in Calls : \E s \in DOMAIN sent[c] :
        /\ {"bookingId", "currency", "title"} \subseteq DOMAIN evt
        /\ ~IsNullish(booking.eventType)
        /\ evt["bookingId"] # bookingId
        /\ evt["currency"] # booking.eventType.currency
        /\ sent[c][s].data["currency"] = booking.eventType.currency
        /\ sent[c][s].data["title"] = evt["title"]

\* The values that mark a field as missing.
MissingMarkers == {NULL, UNDEFINED}

\* C9 as stated: the event-type info has the six keys; each carries a
\* missing marker when booking.eventType is null, and the event type's own
\* value when it is present.
C9_Original ==
    \A c \in Calls :
        pc[c] \in {"map", "await"} =>
            LET info == eventTypeInfo[c]
                et == booking.eventType
            IN  /\ DOMAIN info = EventTypeInfoKeys
                /\ IF IsNullish(et)
                      THEN \A k \in EventTypeInfoKeys : info[k] \in MissingMarkers
                      ELSE /\ info["eventTitle"] = et.title
                           /\ info["eventDescription"] = et.description
                           /\ info["requiresConfirmation"] = et.requiresConfirmation
                           /\ info["price"] = et.price
                           /\ info["currency"] = et.currency
                           /\ info["length"] = et.length

\* C10 as stated: a call in which the construction of the event-type info
\* or of a payload threw ends by throwing to its caller.
C10_Original ==
    \A c \in Calls : BuildFailed(c) => outcome[c] = "threw"

\* C10, amended: a call in which the construction of the event-type info or
\* of a payload threw returns normally, with the exception logged once by
\* the outer catch, exactly as a call whose lookup failed.
C10_ConstructionFailureIsSilent ==
    \A c \in Calls :
        BuildFailed(c) =>
            /\ pc[c] = "done"
            /\ outcome[c] = "returned"
            /\ CopiesIn(CaughtError(failure[c]), console[c]) = 1

\* The construction of a payload threw in a call, and so did the
\* construction of the event-type info in another.
C10_Witness ==
    \E c \in Calls : \E d \in Calls :
        /\ failure[c] = "payload"
        /\ failure[d] = "eventTypeInfo"

\* The map of call c has run to its end after a lookup that succeeded.
FannedOut(c) == pc[c] \in {"await", "done"} /\ failure[c] = "none"

\* C11: dispatch keeps no state across calls.  Two calls for the same
\* booking over the same table resolve the same subscribers, and each of
\* them makes its own delivery attempt to every one of these subscribers,
\* with its own arguments, whatever the other call did.
C11_NotIdempotent ==
    \A c \in Calls : \A d \in Calls \ {c} :
        (FannedOut(c) /\ FannedOut(d)) =>
            /\ subscribers[c] = subscribers[d]
            /\ \A s \in Resolved(c) :
                   /\ attempts[c][s] = 1
                   /\ attempts[d][s] = 1
                   /\ s \in DOMAIN sent[c] /\ s \in DOMAIN sent[d]
                   /\ sent[c][s] = sent[d][s]

\* Two calls have returned; the delivery of the first to a subscriber was
\* fulfilled, and the second delivered to that subscriber again and failed.
C11_Witness ==
    \E c \in Calls : \E d \in Calls : \E s \in SubIds :
        /\ c < d
        /\ pc[c] = "done" /\ pc[d] = "done"
        /\ delivery[c][s] = "fulfilled" /\ attempts[c][s] = 1
        /\ delivery[d][s] = "caught" /\ attempts[d][s] = 1

-----------------------------------------------------------------------------
(* The booking write path *)

\* Row s is subscribed to trigger for this booking.
Subscribed(s, trigger) ==
    Matches(webhooks[s], [LookupOptions(booking) EXCEPT !.triggerEvent = trigger])

\* The webhook of trigger has gone to every row subscribed to it, from the
\* write path itself.
HookedAll(trigger) ==
    \A s \in SubIds :
        Subscribed(s, trigger) =>
            \E h \in hooks : h.webhook = s /\ h.triggerEvent = trigger

\* The triggers of the webhooks dispatched for the booking so far, by the
\* write path itself and by handleBookingRequested.
DispatchedTriggers ==
    {h.triggerEvent : h \in hooks}
        \cup UNION { {sent[c][s].triggerEvent : s \in DOMAIN sent[c]} : c \in Calls }

\* A call of handleBookingRequested has been made for the booking, every
\* delivery it has attempted carries BOOKING_REQUESTED, and once its map has
\* run to the end every subscribed row has its delivery.
RequestDispatched ==
    /\ started > 0
    /\ \A c \in Calls : \A s \in DOMAIN sent[c] :
           sent[c][s].triggerEvent = BOOKING_REQUESTED
    /\ \A c \in Calls : FannedOut(c) =>
           \A s \in SubIds :
               Subscribed(s, BOOKING_REQUESTED) =>
                   s \in DOMAIN sent[c] /\ attempts[c][s] = 1

\* C12: when handleNewBooking has created a booking for an event type that
\* requires neither confirmation nor payment, the booking is ACCEPTED and a
\* BOOKING_CREATED webhook has gone to every subscribed row.
C12_AcceptedAndCreated ==
    (flow = "created" /\ ~RequiresConfirmation /\ ~paid) =>
        /\ status = "ACCEPTED"
        /\ HookedAll(BOOKING_CREATED)
        /\ DispatchedTriggers \subseteq {BOOKING_CREATED}

C12_Witness ==
    /\ flow = "created" /\ ~RequiresConfirmation /\ ~paid
    /\ status = "ACCEPTED"
    /\ \E h \in hooks : h.triggerEvent = BOOKING_CREATED

\* C13: from the moment handleNewBooking has stored a booking for an unpaid
\* event type that requires confirmation, the booking is PENDING, the
\* BOOKING_REQUESTED dispatch of handleBookingRequested is under way or over,
\* and no BOOKING_CREATED webhook is dispatched.
C13_PendingAndRequested ==
    (RequiresConfirmation /\ ~paid /\ flow # "new") =>
        /\ status = "PENDING"
        /\ RequestDispatched
        /\ DispatchedTriggers \subseteq {BOOKING_REQUESTED}

C13_Witness ==
    /\ RequiresConfirmation /\ ~paid /\ flow = "created"
    /\ status = "PENDING"
    /\ \E c \in Calls : \E s \in DOMAIN sent[c] :
           /\ sent[c][s].triggerEvent = BOOKING_REQUESTED
           /\ delivery[c][s] = "fulfilled"

\* C14: a booking of a paid event type is not ACCEPTED before payment
\* success is handled; once handleNewBooking has created it, it is PENDING,
\* BOOKING_PAYMENT_INITIATED has gone to every subscribed row, and no other
\* webhook is dispatched, whether or not the event type requires
\* confirmation.
C14_PaidIsPendingUntilPaid ==
    /\ (paid /\ flow \in {"new", "awaitingPayment"}) => status # "ACCEPTED"
    /\ (paid /\ flow = "awaitingPayment") =>
           /\ status = "PENDING"
           /\ HookedAll(BOOKING_PAYMENT_INITIATED)
           /\ DispatchedTriggers \subseteq {BOOKING_PAYMENT_INITIATED}
           /\ started = 0

C14_Witness ==
    /\ paid /\ flow = "awaitingPayment" /\ RequiresConfirmation
    /\ status = "PENDING"
    /\ \E h \in hooks : h.triggerEvent = BOOKING_PAYMENT_INITIATED

\* C15: when handlePaymentSuccess has run for a booking of a paid event type
\* that does not require confirmation, the booking is ACCEPTED and a
\* BOOKING_CREATED webhook has gone to every subscribed row.
C15_PaymentAccepts ==
    (paid /\ ~RequiresConfirmation /\ flow = "paid") =>
        /\ status = "ACCEPTED"
        /\ HookedAll(BOOKING_CREATED)
        /\ BOOKING_REQUESTED \notin DispatchedTriggers

C15_Witness ==
    /\ paid /\ ~RequiresConfirmation /\ flow = "paid"
    /\ status = "ACCEPTED"
    /\ \E h \in hooks : h.triggerEvent = BOOKING_CREATED /\ h.metadata = NULL

\* C16: from the moment handlePaymentSuccess handles the payment of a
\* booking whose event type requires confirmation, the booking is still
\* PENDING, the BOOKING_REQUESTED dispatch of handleBookingRequested is under
\* way or over, and no BOOKING_CREATED webhook is dispatched.
C16_PaymentKeepsPending ==
    (paid /\ RequiresConfirmation /\ flow \in {"paidRequesting", "paid"}) =>
        /\ status = "PENDING"
        /\ RequestDispatched
        /\ DispatchedTriggers \subseteq {BOOKING_PAYMENT_INITIATED, BOOKING_REQUESTED}

C16_Witness ==
    /\ paid /\ RequiresConfirmation /\ flow = "paid"
    /\ status = "PENDING"
    /\ \E c \in Calls : \E s \in DOMAIN sent[c] :
           /\ sent[c][s].triggerEvent = BOOKING_REQUESTED
           /\ delivery[c][s] = "fulfilled"

\* C17: when the creation of the video meeting has failed, the only thing
\* handleNewBooking does is throw that error: it stores no booking, it
\* dispatches no webhook, and it never returns a created booking.
C17_VideoFailureThrows ==
    [][flow = "videoFailed" =>
          /\ flow' = "threwVideoError"
          /\ status' = "NONE"
          /\ hooks' = {}
          /\ started' = 0]_vars

C17_Witness == flow = "threwVideoError" /\ status = "NONE" /\ hooks = {}

\* The metadata of the payload a delivery carried.
SentMetadata(c, s) ==
    IF "metadata" \in DOMAIN sent[c][s].data
        THEN sent[c][s].data["metadata"] ELSE UNDEFINED

C19_Terminates ==
    (pc[1] # "idle") ~>
        (pc[1] = "done" /\ (~EmailFailed(1) => outcome[1] = "returned"))

C19_Witness ==
    /\ pc[1] = "done" /\ outcome[1] = "returned" /\ failure[1] = "none"
    /\ \E s, u \in Resolved(1) :
           delivery[1][s] = "caught" /\ delivery[1][u] = "fulfilled"

\* The console.error entry of a failed delivery to row s.
DeliveryLogEntry(s) ==
    [kind |-> "webhook", event |-> BOOKING_REQUESTED,
     url |-> webhooks[s].subscriberUrl]

\* C20: the log of a call holds one entry, with the BOOKING_REQUESTED
\* trigger and the subscriber's own URL, for each subscriber whose delivery
\* failed, none for any other subscriber, and no other webhook entry.
C20_FailureLoggedOnce ==
    \A c \in Calls :
        /\ \A s \in SubIds :
               CopiesIn(DeliveryLogEntry(s), console[c]) =
                   (IF delivery[c][s] = "caught" THEN 1 ELSE 0)
        /\ \A e \in BagToSet(console[c]) :
               e.kind = "webhook" => \E s \in SubIds : e = DeliveryLogEntry(s)

C20_Witness ==
    \E c \in Calls : \E s, u \in Resolved(c) :
        /\ delivery[c][s] = "caught" /\ delivery[c][u] = "fulfilled"
        /\ CopiesIn(DeliveryLogEntry(s), console[c]) = 1
        /\ CopiesIn(DeliveryLogEntry(u), console[c]) = 0

-----------------------------------------------------------------------------
(* Frame, pairing, ordering and the requiresConfirmation field *)

\* C21: no step of handleBookingRequested writes the Webhook table, the
\* booking or its status, and while a call is running or over the booking
\* of the request is PENDING, whatever way the call ended.
C21_NoPersistentWrites ==
    /\ [](\A c \in Calls : pc[c] # "idle" => status = "PENDING")
    /\ [][(\E c \in Calls : Run(c)) =>
             /\ webhooks' = webhooks
             /\ booking' = booking
             /\ status' = status]_vars

\* handlePaymentSuccess is over for a booking that requires confirmation,
\* the call it made failed at the lookup, and the booking is PENDING.
C21_Witness ==
    /\ flow = "paid" /\ paid /\ RequiresConfirmation
    /\ started > 0 /\ pc[started] = "done" /\ failure[started] = "getWebhooks"
    /\ status = "PENDING"

\* C22: the invocation of sendPayload for subscriber s carries the secret
\* and the record of row s, the trigger BOOKING_REQUESTED and a payload with
\* the bookingId of the call, and the secret of no other row.
C22_ConsistentPairing ==
    \A c \in Calls : \A s \in DOMAIN sent[c] :
        /\ sent[c][s].secretKey = webhooks[s].secret
        /\ sent[c][s].webhook = webhooks[s]
        /\ sent[c][s].webhook.id = s
        /\ sent[c][s].triggerEvent = BOOKING_REQUESTED
        /\ "bookingId" \in DOMAIN sent[c][s].data
        /\ sent[c][s].data["bookingId"] = bookingId
        /\ \A u \in SubIds \ {s} : sent[c][s].secretKey # webhooks[u].secret

\* One call has issued a delivery to two rows, the second in table order
\* among them, for a snapshot with a bookingId of its own.
C22_Witness ==
    \E c \in Calls : \E s, u \in DOMAIN sent[c] :
        /\ s < u
        /\ "bookingId" \in DOMAIN evt /\ evt["bookingId"] # bookingId
        /\ sent[c][u].secretKey = webhooks[u].secret
        /\ sent[c][s].secretKey = webhooks[s].secret

\* Both request emails of call c have completed, the organizer's first.
BothEmailsSent(c) == emails[c] = <<"organizer", "attendee">>

\* Call c has looked up subscribers or is doing so, or has gone further.
LookedUp(c) ==
    \/ pc[c] \in {"getWebhooks", "eventTypeInfo", "map", "await"}
    \/ failure[c] \in {"getWebhooks", "eventTypeInfo", "payload"}
    \/ subscribers[c] # <<>>
    \/ DOMAIN sent[c] # {}
    \/ \E s \in SubIds : attempts[c][s] > 0 \/ delivery[c][s] # "none"

\* C23: the emails of a call are the organizer's and then the attendee's;
\* a call looks up subscribers or issues a delivery only with both sent; a
\* call in which an email failed has thrown with the lookup and every
\* delivery not made, and nothing of it moves afterwards.
C23_EmailsFirst ==
    /\ [](\A c \in Calls :
            /\ emails[c] \in {<<>>, <<"organizer">>, <<"organizer", "attendee">>}
            /\ LookedUp(c) => BothEmailsSent(c)
            /\ EmailFailed(c) =>
                   /\ outcome[c] = "threw" /\ pc[c] = "done"
                   /\ ~BothEmailsSent(c)
                   /\ ~LookedUp(c))
    /\ [][\A c \in Calls :
             EmailFailed(c) =>
                 /\ pc'[c] = pc[c] /\ emails'[c] = emails[c]
                 /\ subscribers'[c] = subscribers[c]
                 /\ sent'[c] = sent[c] /\ attempts'[c] = attempts[c]]_vars

\* A call threw on the attendee email after the organizer email, and the
\* next call got past both emails to its deliveries.
C23_Witness ==
    \E c, d \in Calls :
        /\ c < d
        /\ failure[c] = "attendeeEmail" /\ outcome[c] = "threw"
        /\ emails[c] = <<"organizer">>
        /\ BothEmailsSent(d) /\ DOMAIN sent[d] # {}

\* C24: the requiresConfirmation of every payload is true when
\* booking.eventType is present with requiresConfirmation true, and null
\* otherwise: never false.
C24_TrueOrNull ==
    \A c \in Calls : \A s \in DOMAIN sent[c] :
        LET et == booking.eventType
            field == sent[c][s].data["requiresConfirmation"]
        IN  /\ field = (IF ~IsNullish(et) /\ et.requiresConfirmation = "true"
                           THEN "true" ELSE NULL)
            /\ field # "false"

\* A delivery was issued for an event type that does not require
\* confirmation, with null in the field.
C24_Witness ==
    \E c \in Calls : \E s \in DOMAIN sent[c] :
        /\ ~IsNullish(booking.eventType)
        /\ booking.eventType.requiresConfirmation = "false"
        /\ sent[c][s].data["requiresConfirmation"] = NULL

====
